---- MODULE Spec2Model ----
(***************************************************************************)
(* A model of buildchain's build pipeline (src/src/build.rs): prepare(),   *)
(* run() and build().  Every blocking call the code makes to the sandbox   *)
(* backend (lxd), the source fetcher, the filesystem and the temporary     *)
(* directory is one step of the build that makes it; each such call either *)
(* succeeds or fails, as an io::Result does.  The command line             *)
(* (src/src/main.rs) is modelled the same way, as a process of its own.    *)
(***************************************************************************)
EXTENDS Naturals, Integers, Sequences, FiniteSets, TLC

\* ------------------------------------------------------------------------
\* Bounds
\* ------------------------------------------------------------------------
\* The most commands a configuration holds, over its three command lists.
MaxCmds == 3
\* The number of distinct source_time values a download can return.
MaxTime == 2

\* ------------------------------------------------------------------------
\* Values
\* ------------------------------------------------------------------------
\* The builds of the model; each runs build() once.
Procs == {1, 2}

Names == {"x", "y"}
Bases == {"img1", "img2"}
Times == 1..MaxTime

\* Commands are argument vectors (Vec<String>).
EchoHi     == <<"echo", "hi">>
AptUpdate  == <<"apt", "update">>
Make       == <<"make">>
InstallPre == <<"install", "-D", "pre", "/root/artifacts/pre">>
CpOut      == <<"cp", "out", "/root/artifacts/">>
CpLib      == <<"cp", "lib", "/root/artifacts/">>
MkdirArtifacts == <<"mkdir", "/root/artifacts">>
MkdirParents   == <<"mkdir", "-p", "/root/artifacts">>

PrepareCmds == {EchoHi, AptUpdate}
BuildCmds   == {Make, InstallPre}
PublishCmds == {CpOut, CpLib}

\* The lengths of the three command lists of a configuration.
Shapes ==
    {s \in (0..MaxCmds) \X (0..MaxCmds) \X (0..MaxCmds) : s[1] + s[2] + s[3] <= MaxCmds}

\* Config: the parsed build specifications of the given names and bases.
ConfigsOf(names, bases) ==
    UNION {[name : names, base : bases,
            prepare : [1..s[1] -> PrepareCmds],
            build : [1..s[2] -> BuildCmds],
            publish : [1..s[3] -> PublishCmds]] : s \in Shapes}

Configs == ConfigsOf(Names, Bases)

\* The configurations that are built: every command list, under one name
\* and one base (no step of the pipeline branches on either; the other
\* names and bases are what the identity of a built configuration is
\* compared with).
BuiltConfigs == ConfigsOf({"x"}, {"img1"})

\* ------------------------------------------------------------------------
\* Environment identity and the derived names (prepare(), run())
\* ------------------------------------------------------------------------
\* A serialized value is the sequence of its JSON tokens; every string of the
\* program is one token, so that serialization is order-preserving and
\* distinct values have distinct texts.
Quote == "\""

JsonString(s) == <<Quote, s, Quote>>

RECURSIVE JsonJoin(_)
JsonJoin(parts) ==
    IF Len(parts) = 0 THEN <<>>
    ELSE IF Len(parts) = 1 THEN parts[1]
    ELSE parts[1] \o <<",">> \o JsonJoin(Tail(parts))

JsonArray(parts) == <<"[">> \o JsonJoin(parts) \o <<"]">>

\* Vec<String>
JsonCommand(cmd) == JsonArray([i \in 1..Len(cmd) |-> JsonString(cmd[i])])

\* Vec<Vec<String>>
JsonCommands(cmds) == JsonArray([i \in 1..Len(cmds) |-> JsonCommand(cmds[i])])

\* serde_json::to_string(&BuildEnvironmentConfig { base, prepare }): the
\* fields in declaration order.
BuildJsonWithName(config) ==
    <<"{">> \o JsonString("name") \o <<":">> \o JsonString(config.name) \o <<",">>
    \o JsonString("base") \o <<":">> \o JsonString(config.base) \o <<",">>
    \o JsonString("prepare") \o <<":">> \o JsonCommands(config.prepare) \o <<"}">>

BuildJson(config) ==
    <<"{">> \o JsonString("base") \o <<":">> \o JsonString(config.base) \o <<",">>
    \o JsonString("prepare") \o <<":">> \o JsonCommands(config.prepare) \o <<"}">>

\* Sha384::new(bytes): the digest of the bytes, a pure function of them and
\* free of collisions (the digest is written as the hashed text, tagged).
Sha384(bytes) == <<"sha384:">> \o bytes

\* serde_json::to_string(&sha): the digest as a JSON string of hex digits.
ShaJson(sha) == <<Quote>> \o sha \o <<Quote>>

\* str::trim_matches('"'): every leading and every trailing quote removed.
RECURSIVE TrimStart(_)
TrimStart(s) ==
    IF Len(s) > 0 /\ s[1] = Quote THEN TrimStart(Tail(s)) ELSE s

RECURSIVE TrimEnd(_)
TrimEnd(s) ==
    IF Len(s) > 0 /\ s[Len(s)] = Quote THEN TrimEnd(SubSeq(s, 1, Len(s) - 1)) ELSE s

TrimMatches(s) == TrimEnd(TrimStart(s))

\* build_sha of prepare(): the environment identity.
BuildSha(config) == Sha384(BuildJson(config))

\* build_image of prepare(): format!("buildchain-{}-{}", name, sha).
BuildImage(config) ==
    <<"buildchain-", config.name, "-">> \o TrimMatches(ShaJson(BuildSha(config)))

\* container_name of run(): format!("buildchain-{}-{}", name, source_time).
ContainerNameOfImage(config, time) == BuildImage(config)

ContainerName(config, time) == <<"buildchain-", config.name, "-", ToString(time)>>

\* ------------------------------------------------------------------------
\* The sandbox backend: container filesystems and images
\* ------------------------------------------------------------------------
\* The regular files a command can leave in /root/artifacts, in
\* lexicographic order of their paths.
AllPaths == <<"lib", "out", "pre">>
Paths == {AllPaths[i] : i \in 1..Len(AllPaths)}

\* No container.
NoCont == [live |-> FALSE, from |-> <<>>, src |-> FALSE, art |-> FALSE,
           files |-> {}, hist |-> <<>>]

\* Container::new(location, name, base): a new instance of an unprepared
\* base image: no source, no /root/artifacts, no command run in it.
FreshFs(base) == [live |-> TRUE, from |-> <<base>>, src |-> FALSE, art |-> FALSE,
                  files |-> {}, hist |-> <<>>]

\* Whether a command, run by Container::exec, exits with success:
\* cp into /root/artifacts/ needs the directory, mkdir needs it absent.
CmdOk(cmd, fs) ==
    CASE cmd \in {CpOut, CpLib} -> fs.art
      [] cmd = MkdirArtifacts -> ~fs.art
      [] OTHER -> TRUE

\* The filesystem a successful command leaves.
CmdFs(cmd, fs) ==
    LET ran == [fs EXCEPT !.hist = Append(@, cmd)] IN
    CASE cmd = InstallPre -> [ran EXCEPT !.art = TRUE, !.files = @ \cup {"pre"}]
      [] cmd = CpOut -> [ran EXCEPT !.files = @ \cup {"out"}]
      [] cmd = CpLib -> [ran EXCEPT !.files = @ \cup {"lib"}]
      [] cmd \in {MkdirArtifacts, MkdirParents} -> [ran EXCEPT !.art = TRUE]
      [] OTHER -> ran

\* The filesystem of the image prepare() publishes for a configuration:
\* every preparation command run, in order, in an instance of the base.
RECURSIVE RunAll(_, _)
RunAll(cmds, fs) ==
    IF Len(cmds) = 0 THEN fs ELSE RunAll(Tail(cmds), CmdFs(cmds[1], fs))

PreparedFs(config) == RunAll(config.prepare, FreshFs(config.base))

\* ------------------------------------------------------------------------
\* The workspace, the output path and the manifest
\* ------------------------------------------------------------------------
\* The contents of the temporary directory: source/, artifacts/ (its files in
\* directory order) and manifest.json.
EmptyTree == [source |-> FALSE, artifacts |-> FALSE, files |-> <<>>,
              mfile |-> "none", mtext |-> <<>>]

NoWorkspace == [state |-> "none", tree |-> EmptyTree]

\* Drop for TempDir: the directory and everything in it is removed.
DropTempDirLeak(w) == w

DropTempDir(w) == [w EXCEPT !.state = "deleted", !.tree = EmptyTree]

\* TempDir::into_path: the directory is kept and no longer removed on drop.
IntoPathDropped(w) == DropTempDir(w)

IntoPath(w) == [w EXCEPT !.state = "persisted"]

\* The output path before the build: absent, an empty directory, or
\* something a rename cannot replace (a file, a directory with entries).
Absent   == [kind |-> "absent", tree |-> EmptyTree]
EmptyDir == [kind |-> "emptydir", tree |-> EmptyTree]
Occupied == [kind |-> "occupied", tree |-> EmptyTree]

\* The orders in which a directory can list the files of a set.
DirOrders(S) ==
    {f \in [1..Cardinality(S) -> S] : \A i, j \in 1..Cardinality(S) : f[i] = f[j] => i = j}

\* The content of the artifact at a path.
Content(path) == <<"content of ", path>>

NoManifest == [time |-> 0, files |-> <<>>]

\* Manifest::new(time, dir): the files of dir walked in lexicographic order
\* of their relative paths, each with the digest of its content.
ManifestNewDirOrder(time, files) ==
    [time |-> time,
     files |-> [i \in 1..Len(files) |-> <<files[i], Sha384(Content(files[i]))>>]]

ManifestNew(time, files) ==
    LET present == {files[i] : i \in 1..Len(files)}
        walk == SelectSeq(AllPaths, LAMBDA q : q \in present)
    IN  [time |-> time,
         files |-> [i \in 1..Len(walk) |-> <<walk[i], Sha384(Content(walk[i]))>>]]

\* serde_json::to_writer_pretty(&mut file, &manifest).
ManifestFilesJson(files) ==
    <<"{">>
    \o JsonJoin([i \in 1..Len(files) |->
                   JsonString(files[i][1]) \o <<":">> \o ShaJson(files[i][2])])
    \o <<"}">>

ManifestJson(m) ==
    <<"{">> \o JsonString("time") \o <<":", ToString(m.time), ",">>
    \o JsonString("files") \o <<":">> \o ManifestFilesJson(m.files) \o <<"}">>

\* ------------------------------------------------------------------------
\* State
\* ------------------------------------------------------------------------
VARIABLES
    pc,           \* pc[p]: the call build() of p makes next
    config,       \* config[p]: the configuration in the file at config_path
    source_time,  \* source_time[p]: what source.download returned
    build_image,  \* build_image[p]: the derived image name of prepare()
    idx,          \* idx[p]: the next command of the command list being run
    cont,         \* cont[p]: the container the build holds
    ws,           \* ws[p]: the temporary directory temp_dir
    out,          \* out[p]: what is at args.output_path
    manifest,     \* manifest[p]: the value Manifest::new returned
    log,          \* log[p]: the calls made so far, each with its outcome
    result,       \* result[p]: what build() returned
    images,       \* the images published at the location, by name
    cli           \* the process of main(): its arguments, calls and exit

vars == <<pc, config, source_time, build_image, idx, cont, ws, out, manifest,
          log, result, images, cli>>

\* What build() reads and writes.
build_vars == <<pc, config, source_time, build_image, idx, cont, ws, out,
                manifest, log, result, images>>

NoResult == [done |-> FALSE, ok |-> FALSE, err |-> ""]

\* A call: what it is, the stage that makes it, its argument (a command, an
\* image), its outcome ("ok", "err", or "absent" for the lookup of an image
\* that does not exist), and the name given to what it creates.
Entry(op, stage, arg, res, name) ==
    [op |-> op, stage |-> stage, arg |-> arg, res |-> res, name |-> name]

Res(ok) == IF ok THEN "ok" ELSE "err"

\* The calls that go to the sandbox backend.
BackendOps == {"image", "create", "exec", "push", "pull", "snapshot", "publish"}

\* The builds that run in a behaviour of Spec.
SeqProcs == {1}

\* Option<&str>: None, or Some(v).
None == <<>>
Some(v) == <<v>>

\* The command line as clap parsed it (matches): the value of each flag.
Matches(config_flag, output_flag, remote_flag) ==
    [config |-> config_flag, output |-> output_flag, remote |-> remote_flag]

\* main() before its first statement, and no main() at all.
CliStart(matches) ==
    [pc |-> "args", matches |-> matches, config_path |-> "", output_path |-> "",
     remote_opt |-> None, location |-> <<>>, log |-> <<>>,
     exited |-> FALSE, code |-> 0]

NoCli == [CliStart(Matches(None, None, None)) EXCEPT !.pc = "none"]

Init ==
    /\ \E c \in BuiltConfigs : config = [p \in Procs |-> c]
    /\ pc = [p \in Procs |-> IF p \in SeqProcs THEN "start" ELSE "idle"]
    /\ source_time = [p \in Procs |-> 0]
    /\ build_image = [p \in Procs |-> <<>>]
    /\ idx = [p \in Procs |-> 1]
    /\ cont = [p \in Procs |-> NoCont]
    /\ ws = [p \in Procs |-> NoWorkspace]
    /\ \E o \in {Absent, EmptyDir, Occupied} : out = [p \in Procs |-> o]
    /\ manifest = [p \in Procs |-> NoManifest]
    /\ log = [p \in Procs |-> <<>>]
    /\ result = [p \in Procs |-> NoResult]
    /\ \E cached \in BOOLEAN :
         images = IF cached
                  THEN (BuildImage(config[1]) :> PreparedFs(config[1]))
                  ELSE <<>>
    /\ cli = NoCli

\* ------------------------------------------------------------------------
\* Steps common to the stages
\* ------------------------------------------------------------------------
Logged(p, op, stage, arg, ok) ==
    log' = [log EXCEPT ![p] = Append(@, Entry(op, stage, arg, Res(ok), <<>>))]

LoggedNamed(p, op, stage, arg, ok, name) ==
    log' = [log EXCEPT ![p] = Append(@, Entry(op, stage, arg, Res(ok), name))]

\* match call { Ok(v) => v, Err(err) => return Err(format!(..)) } in build():
\* the build goes on exactly when the call returned Ok.
Unchecked(ok) == TRUE

Checked(ok) == ok

\* call? in prepare() and run(): the function goes on exactly when the call
\* returned Ok, and returns the error otherwise.
TryIgnored(ok) == TRUE

Try(ok) == ok

\* for command in cmds.iter(): the loop is left when the list is exhausted.
LoopDoneAnytime(i, cmds) == TRUE

LoopDone(i, cmds) == i > Len(cmds)

Goto(p, label) == pc' = [pc EXCEPT ![p] = label]

\* return Err(msg) from build() while temp_dir is in scope: the containers
\* and the temporary directory are dropped.
ReturnErr(p, msg) ==
    /\ Goto(p, "done")
    /\ result' = [result EXCEPT ![p] = [done |-> TRUE, ok |-> FALSE, err |-> msg]]
    /\ ws' = [ws EXCEPT ![p] = DropTempDir(@)]
    /\ cont' = [cont EXCEPT ![p] = NoCont]

\* ------------------------------------------------------------------------
\* build(): the workspace, the source and the configuration
\* ------------------------------------------------------------------------
\* TempDir::new("buildchain")
TempDirNew(p) ==
    /\ pc[p] = "start"
    /\ \E ok \in BOOLEAN :
         /\ Logged(p, "tempdir", "main", <<>>, ok)
         /\ IF Checked(ok)
            THEN /\ ws' = [ws EXCEPT ![p] = [state |-> "temp", tree |-> EmptyTree]]
                 /\ Goto(p, "download")
                 /\ UNCHANGED result
            ELSE /\ Goto(p, "done")
                 /\ result' = [result EXCEPT ![p] =
                        [done |-> TRUE, ok |-> FALSE,
                         err |-> "failed to create temporary directory"]]
                 /\ UNCHANGED ws
    /\ UNCHANGED <<config, source_time, build_image, idx, cont, out, manifest, images, cli>>

\* source.download(&source_path)
Download(p) ==
    /\ pc[p] = "download"
    /\ \E ok \in BOOLEAN :
         /\ Logged(p, "download", "main", <<>>, ok)
         /\ IF Checked(ok)
            THEN /\ \E t \in Times : source_time' = [source_time EXCEPT ![p] = t]
                 /\ ws' = [ws EXCEPT ![p].tree.source = TRUE]
                 /\ Goto(p, "open")
                 /\ UNCHANGED <<result, cont>>
            ELSE /\ ReturnErr(p, "failed to download source")
                 /\ UNCHANGED source_time
    /\ UNCHANGED <<config, build_image, idx, out, manifest, images, cli>>

\* A call that touches nothing but may fail: on success build() goes on to
\* `next`, on failure it returns Err(msg).
Attempt(p, label, op, next, msg) ==
    /\ pc[p] = label
    /\ \E ok \in BOOLEAN :
         /\ Logged(p, op, "main", <<>>, ok)
         /\ IF Checked(ok)
            THEN /\ Goto(p, next)
                 /\ UNCHANGED <<result, ws, cont>>
            ELSE ReturnErr(p, msg)
    /\ UNCHANGED <<config, source_time, build_image, idx, out, manifest, images, cli>>

\* File::open(&source_path.join(&config_path))
OpenConfig(p) == Attempt(p, "open", "open", "read", "failed to open config")

\* file.read_to_string(&mut string)
ReadConfig(p) == Attempt(p, "read", "read", "parse", "failed to read config")

\* serde_json::from_str::<Config>(&string), then the choice of the location
ParseConfig(p) == Attempt(p, "parse", "parse", "lookup", "failed to parse config")

\* ------------------------------------------------------------------------
\* prepare()
\* ------------------------------------------------------------------------
\* What Image::new can do: return Ok for an image that exists, or Err, because
\* the image does not exist or because the backend failed to retrieve it.
LookupOutcomesReserved(name) ==
    IF \/ name \in DOMAIN images
       \/ \E q \in Procs : build_image[q] = name /\ pc[q] \in {"p_create", "p_exec", "p_publish"}
    THEN {"ok", "err"} ELSE {"absent"}

LookupOutcomes(name) ==
    IF name \in DOMAIN images THEN {"ok", "err"} ELSE {"absent"}

\* Image::new(location.clone(), &build_image).is_ok(): the cache is hit when
\* the lookup returned Ok.
CacheHitNever(found) == FALSE

CacheHit(found) == found = "ok"

\* The digest and the image name, then the lookup of the image.
PrepareLookup(p) ==
    /\ pc[p] = "lookup"
    /\ build_image' = [build_image EXCEPT ![p] = BuildImage(config[p])]
    /\ \E found \in LookupOutcomes(BuildImage(config[p])) :
         /\ log' = [log EXCEPT ![p] =
                Append(@, Entry("image", "prepare", BuildImage(config[p]), found, <<>>))]
         /\ IF CacheHit(found) THEN Goto(p, "r_create") ELSE Goto(p, "p_create")
    /\ UNCHANGED <<config, source_time, idx, cont, ws, out, manifest, result, images, cli>>

\* Container::new(location.clone(), &build_image, &config.base)?
PrepareCreate(p) ==
    /\ pc[p] = "p_create"
    /\ \E ok \in BOOLEAN :
         /\ LoggedNamed(p, "create", "prepare", <<config[p].base>>, ok, build_image[p])
         /\ IF Try(ok)
            THEN /\ cont' = [cont EXCEPT ![p] = FreshFs(config[p].base)]
                 /\ idx' = [idx EXCEPT ![p] = 1]
                 /\ Goto(p, "p_exec")
                 /\ UNCHANGED <<result, ws>>
            ELSE /\ ReturnErr(p, "failed to prepare config")
                 /\ UNCHANGED idx
    /\ UNCHANGED <<config, source_time, build_image, out, manifest, images, cli>>

\* container.exec(&args)? for the command at idx of the list `cmds`: the
\* call fails when the backend fails or the command exits with an error.
ExecCommand(p, label, stage, cmds, msg) ==
    /\ pc[p] = label
    /\ idx[p] <= Len(cmds)
    /\ \E backend \in BOOLEAN :
         LET cmd == cmds[idx[p]]
             ok == backend /\ CmdOk(cmd, cont[p])
         IN  /\ Logged(p, "exec", stage, cmd, ok)
             /\ IF Try(ok)
                THEN /\ cont' = [cont EXCEPT ![p] = CmdFs(cmd, @)]
                     /\ idx' = [idx EXCEPT ![p] = @ + 1]
                     /\ UNCHANGED <<pc, result, ws>>
                ELSE /\ ReturnErr(p, msg)
                     /\ UNCHANGED idx
    /\ UNCHANGED <<config, source_time, build_image, out, manifest, images, cli>>

\* for command in config.prepare.iter() { container.exec(&args)?; }
PrepareExec(p) ==
    ExecCommand(p, "p_exec", "prepare", config[p].prepare, "failed to prepare config")

\* container.snapshot(&build_image)?
PrepareSnapshot(p) ==
    /\ pc[p] = "p_exec"
    /\ LoopDone(idx[p], config[p].prepare)
    /\ \E ok \in BOOLEAN :
         /\ LoggedNamed(p, "snapshot", "prepare", <<>>, ok, build_image[p])
         /\ IF Try(ok)
            THEN /\ Goto(p, "p_publish")
                 /\ UNCHANGED <<result, ws, cont>>
            ELSE ReturnErr(p, "failed to prepare config")
    /\ UNCHANGED <<config, source_time, build_image, idx, out, manifest, images, cli>>

\* snapshot.publish(&build_image)?; Ok(build_image)
PreparePublish(p) ==
    /\ pc[p] = "p_publish"
    /\ \E ok \in BOOLEAN :
         /\ LoggedNamed(p, "publish", "prepare", <<>>, ok, build_image[p])
         /\ IF Try(ok)
            THEN /\ images' = (build_image[p] :> cont[p]) @@ images
                 /\ cont' = [cont EXCEPT ![p] = NoCont]
                 /\ Goto(p, "r_create")
                 /\ UNCHANGED <<result, ws>>
            ELSE /\ ReturnErr(p, "failed to prepare config")
                 /\ UNCHANGED images
    /\ UNCHANGED <<config, source_time, build_image, idx, out, manifest, cli>>

\* ------------------------------------------------------------------------
\* run()
\* ------------------------------------------------------------------------
\* Container::new(location.clone(), &container_name, build_image)?
RunCreate(p) ==
    /\ pc[p] = "r_create"
    /\ \E ok \in (IF build_image[p] \in DOMAIN images THEN BOOLEAN ELSE {FALSE}) :
         /\ LoggedNamed(p, "create", "run", build_image[p], ok,
                        ContainerName(config[p], source_time[p]))
         /\ IF Try(ok)
            THEN /\ cont' = [cont EXCEPT ![p] =
                        [images[build_image[p]] EXCEPT !.from = build_image[p]]]
                 /\ Goto(p, "r_push")
                 /\ UNCHANGED <<result, ws>>
            ELSE ReturnErr(p, "failed to run config")
    /\ UNCHANGED <<config, source_time, build_image, idx, out, manifest, images, cli>>

\* container.push(source_path, "/root", true)?
RunPush(p) ==
    /\ pc[p] = "r_push"
    /\ \E ok \in BOOLEAN :
         /\ Logged(p, "push", "run", <<>>, ok)
         /\ IF Try(ok)
            THEN /\ cont' = [cont EXCEPT ![p].src = TRUE]
                 /\ idx' = [idx EXCEPT ![p] = 1]
                 /\ Goto(p, "r_build")
                 /\ UNCHANGED <<result, ws>>
            ELSE /\ ReturnErr(p, "failed to run config")
                 /\ UNCHANGED idx
    /\ UNCHANGED <<config, source_time, build_image, out, manifest, images, cli>>

\* for command in config.build.iter() { container.exec(&args)?; }
RunBuild(p) ==
    ExecCommand(p, "r_build", "build", config[p].build, "failed to run config")

\* The command that creates the artifact directory.
ArtifactDirCommandLenient == MkdirParents

ArtifactDirCommand == MkdirArtifacts

\* container.exec(&["mkdir", "/root/artifacts"])?
RunMkdir(p) ==
    /\ pc[p] = "r_build"
    /\ LoopDone(idx[p], config[p].build)
    /\ \E backend \in BOOLEAN :
         LET ok == backend /\ CmdOk(ArtifactDirCommand, cont[p])
         IN  /\ Logged(p, "exec", "mkdir", ArtifactDirCommand, ok)
             /\ IF Try(ok)
                THEN /\ cont' = [cont EXCEPT ![p] = CmdFs(ArtifactDirCommand, @)]
                     /\ idx' = [idx EXCEPT ![p] = 1]
                     /\ Goto(p, "r_publish")
                     /\ UNCHANGED <<result, ws>>
                ELSE /\ ReturnErr(p, "failed to run config")
                     /\ UNCHANGED idx
    /\ UNCHANGED <<config, source_time, build_image, out, manifest, images, cli>>

\* for command in config.publish.iter() { container.exec(&args)?; }
RunPublish(p) ==
    ExecCommand(p, "r_publish", "publish", config[p].publish, "failed to run config")

\* container.pull("/root/artifacts", temp_path, true)?; Ok(()): the
\* directory arrives as temp_path/artifacts, its files in any order.
RunPull(p) ==
    /\ pc[p] = "r_publish"
    /\ LoopDone(idx[p], config[p].publish)
    /\ \E ok \in BOOLEAN :
         /\ Logged(p, "pull", "run", <<>>, ok)
         /\ IF Try(ok)
            THEN /\ \E order \in DirOrders(cont[p].files) :
                      ws' = [ws EXCEPT ![p].tree.artifacts = TRUE,
                                       ![p].tree.files = order]
                 /\ cont' = [cont EXCEPT ![p] = NoCont]
                 /\ Goto(p, "manifest")
                 /\ UNCHANGED result
            ELSE ReturnErr(p, "failed to run config")
    /\ UNCHANGED <<config, source_time, build_image, idx, out, manifest, images, cli>>

\* ------------------------------------------------------------------------
\* build(): the manifest and the promotion
\* ------------------------------------------------------------------------
\* Manifest::new(source_time, temp_dir.path().join("artifacts"))
GenerateManifest(p) ==
    /\ pc[p] = "manifest"
    /\ \E ok \in BOOLEAN :
         /\ Logged(p, "manifest", "main", <<>>, ok)
         /\ IF Checked(ok)
            THEN /\ manifest' = [manifest EXCEPT ![p] =
                        ManifestNew(source_time[p], ws[p].tree.files)]
                 /\ Goto(p, "m_create")
                 /\ UNCHANGED <<result, ws, cont>>
            ELSE /\ ReturnErr(p, "failed to generate manifest")
                 /\ UNCHANGED manifest
    /\ UNCHANGED <<config, source_time, build_image, idx, out, images, cli>>

\* A call on manifest.json in the temporary directory.
ManifestFile(p, label, op, next, msg, mfile, mtext) ==
    /\ pc[p] = label
    /\ \E ok \in BOOLEAN :
         /\ Logged(p, op, "main", <<>>, ok)
         /\ IF Checked(ok)
            THEN /\ ws' = [ws EXCEPT ![p].tree.mfile = mfile, ![p].tree.mtext = mtext]
                 /\ Goto(p, next)
                 /\ UNCHANGED <<result, cont>>
            ELSE ReturnErr(p, msg)
    /\ UNCHANGED <<config, source_time, build_image, idx, out, manifest, images, cli>>

\* File::create(temp_dir.path().join("manifest.json"))
CreateManifest(p) ==
    ManifestFile(p, "m_create", "create_file", "m_write", "failed to create manifest",
                 "created", <<>>)

\* What serde_json::to_writer_pretty(&mut file, &manifest) writes: the
\* whole manifest.
WrittenFilesOnly(m) == ManifestFilesJson(m.files)

Written(m) == ManifestJson(m)

\* serde_json::to_writer_pretty(&mut file, &manifest)
WriteManifest(p) ==
    ManifestFile(p, "m_write", "write", "m_sync", "failed to write manifest",
                 "written", Written(manifest[p]))

\* file.sync_all()
SyncManifest(p) ==
    ManifestFile(p, "m_sync", "sync", "rename", "failed to sync manifest",
                 "synced", ws[p].tree.mtext)

\* Whether fs::rename of a directory to the path can succeed: not onto a
\* file or a directory that has entries.
RenameOutcomes(o) == IF o.kind = "occupied" THEN {FALSE} ELSE BOOLEAN

\* What is at the output path after a successful rename of the directory.
Promoted(w) == [kind |-> "tree", tree |-> w.tree]

\* What is at the output path after a failed fs::rename: what was there (a
\* rename is atomic; a copy that fails leaves what it has written).
AfterFailedCopy(o, w) == Promoted(w)

AfterFailedRename(o, w) == o

\* temp_dir.into_path(); fs::rename(&temp_path, &args.output_path); Ok(())
Rename(p) ==
    /\ pc[p] = "rename"
    /\ \E ok \in RenameOutcomes(out[p]) :
         /\ Logged(p, "rename", "main", <<>>, ok)
         /\ out' = [out EXCEPT ![p] =
                IF ok THEN Promoted(ws[p]) ELSE AfterFailedRename(@, ws[p])]
         /\ ws' = [ws EXCEPT ![p] =
                IF ok THEN [state |-> "moved", tree |-> EmptyTree] ELSE IntoPath(@)]
         /\ result' = [result EXCEPT ![p] =
                IF Checked(ok)
                THEN [done |-> TRUE, ok |-> TRUE, err |-> ""]
                ELSE [done |-> TRUE, ok |-> FALSE,
                      err |-> "failed to move temporary directory"]]
    /\ Goto(p, "done")
    /\ UNCHANGED <<config, source_time, build_image, idx, cont, manifest, images, cli>>

\* ------------------------------------------------------------------------
\* Specification: one build, from the call of build() to its return
\* ------------------------------------------------------------------------
Step(p) ==
    \/ TempDirNew(p)
    \/ Download(p)
    \/ OpenConfig(p)
    \/ ReadConfig(p)
    \/ ParseConfig(p)
    \/ PrepareLookup(p)
    \/ PrepareCreate(p)
    \/ PrepareExec(p)
    \/ PrepareSnapshot(p)
    \/ PreparePublish(p)
    \/ RunCreate(p)
    \/ RunPush(p)
    \/ RunBuild(p)
    \/ RunMkdir(p)
    \/ RunPublish(p)
    \/ RunPull(p)
    \/ GenerateManifest(p)
    \/ CreateManifest(p)
    \/ WriteManifest(p)
    \/ SyncManifest(p)
    \/ Rename(p)

Next == \E p \in SeqProcs : Step(p)

Spec == Init /\ [][Next]_vars

\* The builds of every configuration, of any name and base, each with no
\* image published yet and nothing at its output path: the specification
\* under which the functions of the configuration alone are checked.
InitIdentity ==
    /\ \E c \in Configs : config = [p \in Procs |-> c]
    /\ pc = [p \in Procs |-> IF p \in SeqProcs THEN "start" ELSE "idle"]
    /\ source_time = [p \in Procs |-> 0]
    /\ build_image = [p \in Procs |-> <<>>]
    /\ idx = [p \in Procs |-> 1]
    /\ cont = [p \in Procs |-> NoCont]
    /\ ws = [p \in Procs |-> NoWorkspace]
    /\ out = [p \in Procs |-> Absent]
    /\ manifest = [p \in Procs |-> NoManifest]
    /\ log = [p \in Procs |-> <<>>]
    /\ result = [p \in Procs |-> NoResult]
    /\ images = <<>>
    /\ cli = NoCli

SpecIdentity == InitIdentity /\ [][Next]_vars

\* ------------------------------------------------------------------------
\* main(): the command line
\* ------------------------------------------------------------------------
\* The values a flag of the command line can have.
ConfigFlags == {None, Some("custom.json")}
OutputFlags == {None, Some("custom.out")}
RemoteFlags == {None, Some("remote1")}

\* Option::unwrap_or(default)
UnwrapOr(opt, default) == IF opt = None THEN default ELSE opt[1]

\* Location::Local, Location::Remote(remote)
Local == <<"local">>
Remote(remote) == <<"remote", remote>>

\* The exit status of the process: process::exit(1) in every Err arm, and
\* the return from main() otherwise.
ExitStatusAlwaysZero(ok) == 0

ExitStatus(ok) == IF ok THEN 0 ELSE 1

\* A call of main(): what it is, its argument, its outcome.
CliCalled(c, op, arg, ok) ==
    [c EXCEPT !.log = Append(@, [op |-> op, arg |-> arg, res |-> Res(ok)])]

\* The process ends with the exit status of the outcome.
Exit(c, ok) == [c EXCEPT !.pc = "exited", !.exited = TRUE, !.code = ExitStatus(ok)]

\* matches.value_of("config").unwrap_or("buildchain.json"), and the same for
\* the output path; matches.value_of("remote")
MainArgs ==
    /\ cli.pc = "args"
    /\ cli' = [cli EXCEPT !.pc = "open",
                          !.config_path = UnwrapOr(cli.matches.config, "buildchain.json"),
                          !.output_path = UnwrapOr(cli.matches.output, "buildchain.out"),
                          !.remote_opt = cli.matches.remote]
    /\ UNCHANGED build_vars

\* A call of main() on the configuration file: on Ok main() goes on to
\* `next`, on Err it prints the error and calls process::exit(1).
MainAttempt(label, op, next) ==
    /\ cli.pc = label
    /\ \E ok \in BOOLEAN :
         LET called == CliCalled(cli, op, cli.config_path, ok) IN
         cli' = IF ok THEN [called EXCEPT !.pc = next] ELSE Exit(called, FALSE)
    /\ UNCHANGED build_vars

\* File::open(&config_path)
MainOpen == MainAttempt("open", "open", "read")

\* file.read_to_string(&mut string)
MainRead == MainAttempt("read", "read", "parse")

\* serde_json::from_str::<Config>(&string)
MainParse == MainAttempt("parse", "parse", "run")

\* The choice of the location, then config.run(location, output_path): on
\* Ok main() returns, on Err it prints the error and calls process::exit(1).
MainRun ==
    /\ cli.pc = "run"
    /\ \E ok \in BOOLEAN :
         LET location == IF cli.remote_opt = None THEN Local
                         ELSE Remote(cli.remote_opt[1])
             called == CliCalled([cli EXCEPT !.location = location], "run",
                                 <<location, cli.output_path>>, ok)
         IN  cli' = Exit(called, ok)
    /\ UNCHANGED build_vars

\* The configuration of the example scenario.
ExampleConfig ==
    [name |-> "x", base |-> "img1", prepare |-> <<EchoHi>>, build |-> <<Make>>,
     publish |-> <<CpOut>>]

\* One run of the command line with any flags, and one build of the example
\* configuration, each from its first statement to its return.
InitCli ==
    /\ config = [p \in Procs |-> ExampleConfig]
    /\ pc = [p \in Procs |-> IF p \in SeqProcs THEN "start" ELSE "idle"]
    /\ source_time = [p \in Procs |-> 0]
    /\ build_image = [p \in Procs |-> <<>>]
    /\ idx = [p \in Procs |-> 1]
    /\ cont = [p \in Procs |-> NoCont]
    /\ ws = [p \in Procs |-> NoWorkspace]
    /\ \E o \in {Absent, Occupied} : out = [p \in Procs |-> o]
    /\ manifest = [p \in Procs |-> NoManifest]
    /\ log = [p \in Procs |-> <<>>]
    /\ result = [p \in Procs |-> NoResult]
    /\ \E cached \in BOOLEAN :
         images = IF cached
                  THEN (BuildImage(ExampleConfig) :> PreparedFs(ExampleConfig))
                  ELSE <<>>
    /\ \E c \in ConfigFlags, o \in OutputFlags, r \in RemoteFlags :
         cli = CliStart(Matches(c, o, r))

NextCli ==
    \/ MainArgs
    \/ MainOpen
    \/ MainRead
    \/ MainParse
    \/ MainRun
    \/ \E p \in SeqProcs : Step(p)

SpecCli == InitCli /\ [][NextCli]_vars

\* ------------------------------------------------------------------------
\* Specification: two builds at one location
\* ------------------------------------------------------------------------
\* Two builds of the example configuration (the same name, base and
\* preparation commands) at one location with no image published, each to
\* an output path of its own.  Every call of a build is one step, and the
\* steps of the two builds interleave in any way: at the same time, or one
\* build after the other.
InitBuilds ==
    /\ config = [p \in Procs |-> ExampleConfig]
    /\ pc = [p \in Procs |-> "start"]
    /\ source_time = [p \in Procs |-> 0]
    /\ build_image = [p \in Procs |-> <<>>]
    /\ idx = [p \in Procs |-> 1]
    /\ cont = [p \in Procs |-> NoCont]
    /\ ws = [p \in Procs |-> NoWorkspace]
    /\ out = [p \in Procs |-> Absent]
    /\ manifest = [p \in Procs |-> NoManifest]
    /\ log = [p \in Procs |-> <<>>]
    /\ result = [p \in Procs |-> NoResult]
    /\ images = <<>>
    /\ cli = NoCli

NextBuilds == \E p \in Procs : Step(p)

SpecBuilds == InitBuilds /\ [][NextBuilds]_vars

\* ------------------------------------------------------------------------
\* Specification: one build after another at one location
\* ------------------------------------------------------------------------
\* build() is called again, after every earlier build has returned.
BuildAgain(p) ==
    /\ pc[p] = "idle"
    /\ \A q \in Procs : q < p => result[q].done
    /\ pc' = [pc EXCEPT ![p] = "start"]
    /\ UNCHANGED <<config, source_time, build_image, idx, cont, ws, out, manifest,
                   log, result, images, cli>>

\* The builds of the example configuration, one after the other, at a
\* location with no image published at first.
InitSequence ==
    /\ config = [p \in Procs |-> ExampleConfig]
    /\ pc = [p \in Procs |-> IF p = 1 THEN "start" ELSE "idle"]
    /\ source_time = [p \in Procs |-> 0]
    /\ build_image = [p \in Procs |-> <<>>]
    /\ idx = [p \in Procs |-> 1]
    /\ cont = [p \in Procs |-> NoCont]
    /\ ws = [p \in Procs |-> NoWorkspace]
    /\ out = [p \in Procs |-> Absent]
    /\ manifest = [p \in Procs |-> NoManifest]
    /\ log = [p \in Procs |-> <<>>]
    /\ result = [p \in Procs |-> NoResult]
    /\ images = <<>>
    /\ cli = NoCli

NextSequence == \E p \in Procs : Step(p) \/ BuildAgain(p)

SpecSequence == InitSequence /\ [][NextSequence]_vars

\* ------------------------------------------------------------------------
\* Reading the log
\* ------------------------------------------------------------------------
\* The positions of the log of p whose call is `op` made by `stage`.
At(p, op, stage) ==
    {i \in 1..Len(log[p]) : log[p][i].op = op /\ log[p][i].stage = stage}

\* The positions of the log of p whose call is `op`.
AtOp(p, op) == {i \in 1..Len(log[p]) : log[p][i].op = op}

\* The commands of a stage in the log of p, in the order of their execution.
Executed(p, stage) ==
    LET e == SelectSeq(log[p], LAMBDA x : x.op = "exec" /\ x.stage = stage)
    IN  [i \in 1..Len(e) |-> e[i].arg]

Returned(p) == result[p].done
ReturnedOk(p) == result[p].done /\ result[p].ok
ReturnedErr(p) == result[p].done /\ ~result[p].ok

\* The calls build() makes on the workspace, in the order of the code.
WorkspaceOps == {"tempdir", "download", "open", "read", "parse", "manifest",
                 "create_file", "write", "sync"}

\* ------------------------------------------------------------------------
\* C1
\* ------------------------------------------------------------------------
\* C1: the output path is created or modified by one step only, the final
\* rename when it succeeds, which is the step by which build() returns Ok; a
\* build in which any stage fails (the rename included) leaves the output
\* path as it was.
C1_OutputTouchedOnlyByFinalRename ==
    [][\A p \in Procs :
         out'[p] # out[p] =>
           /\ pc[p] = "rename"
           /\ log'[p][Len(log'[p])].op = "rename"
           /\ log'[p][Len(log'[p])].res = "ok"
           /\ Cardinality({i \in 1..Len(log'[p]) : log'[p][i].op = "rename"}) = 1
           /\ result'[p].done /\ result'[p].ok
           /\ out'[p].kind = "tree"]_vars

\* A build that failed after the manifest was written, the rename of a build
\* that failed, and the output path still the empty directory it was.
C1_Witness ==
    \E p \in Procs :
        /\ ReturnedErr(p)
        /\ result[p].err = "failed to move temporary directory"
        /\ ws[p].tree.mfile = "synced"
        /\ out[p] = EmptyDir

\* ------------------------------------------------------------------------
\* C2
\* ------------------------------------------------------------------------
\* C2: when build() has returned Ok the output path holds the promoted
\* workspace (the pulled artifacts and manifest.json, completely written and
\* synced), the workspace is no longer at its temporary path, the rename is
\* the last call made and succeeded, and every call before it succeeded (the
\* image lookup apart, whose Err is the cache miss); and in every state a
\* rename has only successful calls before it, among them every call on the
\* workspace, the push, the creation of the artifact directory and the pull.
C2_OkOnlyAfterCompletePromotion ==
    \A p \in Procs :
        /\ ReturnedOk(p) =>
             /\ out[p].kind = "tree"
             /\ out[p].tree.artifacts
             /\ out[p].tree.mfile = "synced"
             /\ out[p].tree.mtext = ManifestJson(manifest[p])
             /\ manifest[p] = ManifestNew(source_time[p], out[p].tree.files)
             /\ ws[p].state = "moved"
             /\ AtOp(p, "rename") = {Len(log[p])}
             /\ log[p][Len(log[p])].res = "ok"
        /\ \A i \in AtOp(p, "rename") :
             /\ \A j \in 1..(i - 1) : log[p][j].res = "ok" \/ log[p][j].op = "image"
             /\ \A op \in WorkspaceOps : \E j \in 1..(i - 1) : log[p][j].op = op
             /\ \E j \in 1..(i - 1) : log[p][j].op = "push"
             /\ \E j \in 1..(i - 1) : log[p][j].op = "exec" /\ log[p][j].stage = "mkdir"
             /\ \E j \in 1..(i - 1) : log[p][j].op = "pull"

\* A build that returned Ok with two artifacts pulled.
C2_Witness ==
    \E p \in Procs :
        /\ ReturnedOk(p)
        /\ Len(out[p].tree.files) = 2
        /\ out[p].tree.mfile = "synced"

\* ------------------------------------------------------------------------
\* C3
\* ------------------------------------------------------------------------
\* The calls prepare() makes to build an environment.
PrepareWork(p) ==
    {i \in 1..Len(log[p]) :
        log[p][i].stage = "prepare" /\ log[p][i].op \in {"create", "exec", "snapshot", "publish"}}

\* prepare() of p has returned Ok(build_image).
Prepared(p) == At(p, "create", "run") # {}

\* C3: when the image of the derived name exists at the lookup, prepare()
\* creates no container, runs no preparation command, takes no snapshot and
\* publishes nothing; when it does not exist and prepare() returns Ok, every
\* command of config.prepare has run once, in list order; either way the
\* name returned is the derived name.
C3_CacheCorrectness ==
    \A p \in Procs :
        /\ (\E i \in AtOp(p, "image") : log[p][i].res # "absent") => PrepareWork(p) = {}
        /\ (\E i \in AtOp(p, "image") : log[p][i].res = "absent") /\ Prepared(p) =>
              Executed(p, "prepare") = config[p].prepare
        /\ Prepared(p) => build_image[p] = BuildImage(config[p])

\* What holds of prepare() in place of C3: the cache is hit exactly when the
\* lookup returned Ok; on any Err (the image absent, or the backend failing
\* while the image exists) prepare() builds the environment again.
C3_HitOnLookupOk ==
    \A p \in Procs :
        /\ (\E i \in AtOp(p, "image") : log[p][i].res = "ok") => PrepareWork(p) = {}
        /\ (\E i \in AtOp(p, "image") : log[p][i].res # "ok") /\ Prepared(p) =>
              Executed(p, "prepare") = config[p].prepare
        /\ Prepared(p) => build_image[p] = BuildImage(config[p])

\* ------------------------------------------------------------------------
\* C4
\* ------------------------------------------------------------------------
\* C4: in the log of every build the push precedes every build command,
\* every build command precedes the creation of the artifact directory,
\* which precedes every publish command, which precedes the pull; when the
\* directory is created every build command has run, and when the artifacts
\* are pulled every publish command has run, each list in its order.
C4_RunOrdering ==
    \A p \in Procs :
        LET push == At(p, "push", "run")
            build == At(p, "exec", "build")
            mkdir == At(p, "exec", "mkdir")
            publish == At(p, "exec", "publish")
            pull == At(p, "pull", "run")
        IN  /\ \A i \in push, j \in build : i < j
            /\ \A i \in build, j \in mkdir : i < j
            /\ \A i \in mkdir, j \in publish : i < j
            /\ \A i \in publish, j \in pull : i < j
            /\ build # {} => push # {}
            /\ mkdir # {} => push # {} /\ Executed(p, "build") = config[p].build
            /\ publish # {} => mkdir # {}
            /\ pull # {} => mkdir # {} /\ Executed(p, "publish") = config[p].publish
            /\ Cardinality(push) <= 1 /\ Cardinality(mkdir) <= 1 /\ Cardinality(pull) <= 1

\* A run that pulled its artifacts after a build command and two publish
\* commands.
C4_Witness ==
    \E p \in Procs :
        /\ At(p, "pull", "run") # {}
        /\ Len(Executed(p, "build")) = 1
        /\ Len(Executed(p, "publish")) = 2

\* ------------------------------------------------------------------------
\* C5
\* ------------------------------------------------------------------------
\* C5: a command that fails is the last call of its build, of any kind (no
\* later command, snapshot, publish, mkdir, pull, manifest or rename), the
\* build has returned an error, and the commands run of each list are the
\* first commands of the list, in order.
C5_AbortOnFailure ==
    \A p \in Procs :
        /\ \A i \in AtOp(p, "exec") :
              log[p][i].res = "err" => i = Len(log[p]) /\ ReturnedErr(p)
        /\ \A stage \in {"prepare", "build", "publish"} :
              LET ran == Executed(p, stage)
                  cmds == config[p][stage]
              IN  Len(ran) <= Len(cmds) /\ ran = SubSeq(cmds, 1, Len(ran))

\* The first of two build commands failed and the second never ran.
C5_Witness ==
    \E p \in Procs :
        /\ ReturnedErr(p)
        /\ Len(config[p].build) = 2
        /\ Executed(p, "build") = <<config[p].build[1]>>
        /\ log[p][Len(log[p])].op = "exec"
        /\ log[p][Len(log[p])].res = "err"

\* ------------------------------------------------------------------------
\* C6
\* ------------------------------------------------------------------------
\* prepare() of p has just derived the image name and looked the image up.
Derived(p) == Len(log[p]) > 0 /\ log[p][Len(log[p])].op = "image"

\* The digest within an image name.
DigestOf(image) == SubSeq(image, 4, Len(image))

\* The configurations of the base and the preparation commands of cfg, of
\* any name, build commands and publish commands.
SameEnvironment(cfg) ==
    UNION {[name : Names, base : {cfg.base}, prepare : {cfg.prepare},
            build : [1..s[2] -> BuildCmds],
            publish : [1..s[3] -> PublishCmds]] :
           s \in {t \in Shapes : t[1] = Len(cfg.prepare)}}

\* The configurations that differ from cfg in the base or the preparation
\* commands, and in nothing else.
OtherEnvironment(cfg) ==
    UNION {[name : {cfg.name}, base : Bases, prepare : [1..s[1] -> PrepareCmds],
            build : {cfg.build}, publish : {cfg.publish}] :
           s \in {t \in Shapes : t[2] = Len(cfg.build) /\ t[3] = Len(cfg.publish)}}
    \ {cfg}

\* C6: the digest prepare() computed is the digest of every configuration
\* of the same base and the same preparation commands, whatever its name,
\* build and publish; the image name is that of every configuration of the
\* same name, base and preparation commands; a configuration of the same
\* environment and another name has another image name, and one that
\* differs in the base or the preparation commands has another text hashed.
C6_IdentityFromBaseAndPrepare ==
    \A p \in Procs :
        Derived(p) =>
            /\ \A c \in SameEnvironment(config[p]) :
                  LET image == BuildImage(c) IN
                  /\ DigestOf(image) = DigestOf(build_image[p])
                  /\ DigestOf(image) = TrimMatches(ShaJson(BuildSha(config[p])))
                  /\ c.name = config[p].name => image = build_image[p]
                  /\ c.name # config[p].name => image # build_image[p]
            /\ \A c \in OtherEnvironment(config[p]) :
                  BuildJson(c) # BuildJson(config[p])

\* prepare() has derived the image name of a configuration that has
\* preparation, build and publish commands.
C6_Witness ==
    \E p \in Procs :
        /\ Derived(p)
        /\ Len(config[p].prepare) = 1
        /\ Len(config[p].build) = 1
        /\ Len(config[p].publish) = 1

\* ------------------------------------------------------------------------
\* C7
\* ------------------------------------------------------------------------
\* The manifest of p has been generated from the artifacts in the workspace.
ManifestGenerated(p) == pc[p] \in {"m_create", "m_write", "m_sync", "rename"}

\* C7: the manifest generated from the pulled artifacts serializes to the
\* same text as the manifest of the same files listed by the directory in
\* any other order, and its files serialize to the same text whatever the
\* time.
C7_ManifestDeterminism ==
    \A p \in Procs :
        ManifestGenerated(p) =>
            \A order \in DirOrders({ws[p].tree.files[i] : i \in 1..Len(ws[p].tree.files)}) :
                /\ ManifestJson(ManifestNew(source_time[p], order)) = ManifestJson(manifest[p])
                /\ \A t \in Times :
                      ManifestFilesJson(ManifestNew(t, order).files)
                          = ManifestFilesJson(manifest[p].files)

\* A manifest generated from two artifacts that the directory lists against
\* the order of their paths.
C7_Witness ==
    \E p \in Procs :
        /\ ManifestGenerated(p)
        /\ ws[p].tree.files = <<"out", "lib">>

\* ------------------------------------------------------------------------
\* C8
\* ------------------------------------------------------------------------
\* C8: a call to the sandbox backend that failed is the last call of its
\* build, and the build has returned the error of the stage that made it.
C8_BackendFailureFatal ==
    \A p \in Procs :
        \A i \in 1..Len(log[p]) :
            (log[p][i].op \in BackendOps /\ log[p][i].res = "err") =>
                /\ i = Len(log[p])
                /\ ReturnedErr(p)
                /\ result[p].err \in {"failed to prepare config", "failed to run config"}

\* What holds in place of C8: every failed backend call other than the image
\* lookup is the last call of its build, which has returned the error of
\* prepare() or of run().
C8_FatalExceptLookup ==
    \A p \in Procs :
        \A i \in 1..Len(log[p]) :
            (log[p][i].op \in (BackendOps \ {"image"}) /\ log[p][i].res = "err") =>
                /\ i = Len(log[p])
                /\ ReturnedErr(p)
                /\ result[p].err \in {"failed to prepare config", "failed to run config"}

\* ------------------------------------------------------------------------
\* C9
\* ------------------------------------------------------------------------
\* The names of the entries of a directory.
Entries(tree) ==
    (IF tree.source THEN {"source"} ELSE {})
    \cup (IF tree.artifacts THEN {"artifacts"} ELSE {})
    \cup (IF tree.mfile # "none" THEN {"manifest.json"} ELSE {})

\* The files of the directory artifacts of a tree.
Artifacts(tree) == {tree.files[i] : i \in 1..Len(tree.files)}

\* The files the publish commands of a configuration write into
\* /root/artifacts.
Published(cfg) ==
    {IF cfg.publish[i] = CpOut THEN "out" ELSE "lib" : i \in 1..Len(cfg.publish)}

\* run() of p has returned Ok and build() has not yet touched the workspace.
RunReturnedOk(p) == pc[p] = "manifest"

\* C9 as claimed: after run() the staging path holds exactly the published
\* artifacts, and after build() the output directory holds exactly those
\* artifacts and manifest.json.
C9_OutputExactlyArtifactsAndManifest ==
    \A p \in Procs :
        /\ RunReturnedOk(p) => Entries(ws[p].tree) = Published(config[p])
        /\ ReturnedOk(p) =>
              Entries(out[p].tree) = Published(config[p]) \cup {"manifest.json"}

\* C9 as amended: after run() the staging path holds the source tree and a
\* directory artifacts whose files are exactly those the publish commands
\* wrote, and after build() the output directory holds exactly source,
\* artifacts (with exactly those files) and manifest.json.
C9_OutputIsWorkspace ==
    \A p \in Procs :
        /\ RunReturnedOk(p) =>
              /\ Entries(ws[p].tree) = {"source", "artifacts"}
              /\ Artifacts(ws[p].tree) = Published(config[p])
        /\ ReturnedOk(p) =>
              /\ Entries(out[p].tree) = {"source", "artifacts", "manifest.json"}
              /\ Artifacts(out[p].tree) = Published(config[p])

\* A build of one build command and one publish command that returned Ok.
C9_Witness ==
    \E p \in Procs :
        /\ ReturnedOk(p)
        /\ config[p].build = <<Make>>
        /\ config[p].publish = <<CpOut>>
        /\ Artifacts(out[p].tree) = {"out"}

\* ------------------------------------------------------------------------
\* C10
\* ------------------------------------------------------------------------
\* The temporary directory of p is not on disk.
WorkspaceGone(p) == ws[p].state \in {"none", "deleted"}

\* C10 as claimed: whenever build() has returned an error the temporary
\* directory no longer exists.
C10_WorkspaceGoneOnEveryError ==
    \A p \in Procs : ReturnedErr(p) => WorkspaceGone(p)

\* C10 as amended: whenever build() has returned an error of a stage before
\* the final rename the temporary directory no longer exists; while build()
\* runs it exists from its creation on.
C10_WorkspaceGoneOnErrorBeforeRename ==
    \A p \in Procs :
        /\ (ReturnedErr(p) /\ result[p].err # "failed to move temporary directory") =>
              WorkspaceGone(p)
        /\ (~Returned(p) /\ pc[p] \notin {"idle", "start"}) => ws[p].state = "temp"

\* A build whose run() failed after the source was downloaded, and whose
\* temporary directory is deleted.
C10_Witness ==
    \E p \in Procs :
        /\ ReturnedErr(p)
        /\ result[p].err = "failed to run config"
        /\ \E i \in AtOp(p, "download") : log[p][i].res = "ok"
        /\ ws[p].state = "deleted"

\* ------------------------------------------------------------------------
\* C11
\* ------------------------------------------------------------------------
\* The final rename of p failed.
RenameFailed(p) == \E i \in AtOp(p, "rename") : log[p][i].res = "err"

\* C11: when the final rename fails build() returns the error of the move,
\* and the temporary directory is still at its temporary path, no longer
\* owned by a TempDir, with everything the build put into it: the source
\* tree, the pulled artifacts and manifest.json, written and synced, holding
\* the manifest of those artifacts.
C11_WorkspaceIntactOnFailedRename ==
    \A p \in Procs :
        RenameFailed(p) =>
            /\ ReturnedErr(p)
            /\ result[p].err = "failed to move temporary directory"
            /\ ws[p].state = "persisted"
            /\ Entries(ws[p].tree) = {"source", "artifacts", "manifest.json"}
            /\ Artifacts(ws[p].tree) = Published(config[p])
            /\ ws[p].tree.mfile = "synced"
            /\ ws[p].tree.mtext = ManifestJson(manifest[p])
            /\ manifest[p] = ManifestNew(source_time[p], ws[p].tree.files)

\* A build of two artifacts whose rename onto an occupied output path
\* failed.
C11_Witness ==
    \E p \in Procs :
        /\ RenameFailed(p)
        /\ out[p] = Occupied
        /\ Artifacts(ws[p].tree) = {"lib", "out"}

\* ------------------------------------------------------------------------
\* C12
\* ------------------------------------------------------------------------
\* The calls of build() that fetch the source and load the configuration.
LoadOps == {"download", "open", "read", "parse"}

\* The positions of the log of p at which the sandbox backend is called.
BackendCalls(p) == {i \in 1..Len(log[p]) : log[p][i].op \in BackendOps}

\* The positions of the log of main() whose call is `op`.
CliAt(op) == {i \in 1..Len(cli.log) : cli.log[i].op = op}

\* C12: in build(), every call to the sandbox backend (the image lookup
\* first of all) comes after a successful download, open, read and parse,
\* and a build in which one of these failed has made no call to the backend;
\* in main(), config.run is called only after the configuration file was
\* opened, read and parsed with success, and not at all when one of these
\* failed.
C12_NoBackendBeforeSourceAndConfig ==
    /\ \A p \in Procs :
          /\ \A i \in BackendCalls(p) :
                \A op \in LoadOps :
                    \E j \in 1..(i - 1) : log[p][j].op = op /\ log[p][j].res = "ok"
          /\ (\E j \in 1..Len(log[p]) : log[p][j].op \in LoadOps /\ log[p][j].res = "err")
                => BackendCalls(p) = {}
    /\ \A i \in CliAt("run") :
          \A op \in {"open", "read", "parse"} :
              \E j \in 1..(i - 1) : cli.log[j].op = op /\ cli.log[j].res = "ok"
    /\ (\E j \in 1..Len(cli.log) : cli.log[j].op # "run" /\ cli.log[j].res = "err")
          => CliAt("run") = {}

\* A build that failed to parse its configuration after the download, and a
\* main() that failed to read its configuration file.
C12_Witness ==
    /\ \E p \in Procs :
          /\ ReturnedErr(p)
          /\ result[p].err = "failed to parse config"
          /\ \E j \in AtOp(p, "download") : log[p][j].res = "ok"
    /\ cli.exited
    /\ cli.log[Len(cli.log)] = [op |-> "read", arg |-> "buildchain.json", res |-> "err"]

\* ------------------------------------------------------------------------
\* C13
\* ------------------------------------------------------------------------
\* C13: a call of main() that failed (open, read, parse of the configuration
\* file, or config.run) is its last call and the process has exited with a
\* status other than zero; a process that exited with zero made the four
\* calls with success, config.run last; the configuration file is the value
\* of the flag, or buildchain.json without the flag, the output path given to
\* config.run is the value of the flag, or buildchain.out without it, and
\* the location is the remote of the flag, or the local one without it.
C13_ExitStatusAndDefaults ==
    /\ \A i \in 1..Len(cli.log) :
          cli.log[i].res = "err" => i = Len(cli.log) /\ cli.exited /\ cli.code # 0
    /\ (cli.exited /\ cli.code = 0) =>
          /\ [i \in 1..Len(cli.log) |-> cli.log[i].op] = <<"open", "read", "parse", "run">>
          /\ \A i \in 1..Len(cli.log) : cli.log[i].res = "ok"
    /\ cli.exited => cli.log # <<>> /\ cli.code \in {0, 1}
    /\ cli.pc \notin {"none", "args"} =>
          /\ cli.matches.config = None => cli.config_path = "buildchain.json"
          /\ cli.matches.config # None => cli.config_path = cli.matches.config[1]
          /\ cli.matches.output = None => cli.output_path = "buildchain.out"
          /\ cli.matches.output # None => cli.output_path = cli.matches.output[1]
          /\ \A i \in 1..Len(cli.log) :
                IF cli.log[i].op = "run"
                THEN /\ cli.log[i].arg[2] = cli.output_path
                     /\ cli.matches.remote = None => cli.log[i].arg[1] = Local
                     /\ cli.matches.remote # None =>
                           cli.log[i].arg[1] = Remote(cli.matches.remote[1])
                ELSE cli.log[i].arg = cli.config_path

\* A main() without flags whose config.run, on buildchain.out, returned an
\* error, and that exited with status 1.
C13_Witness ==
    /\ cli.exited
    /\ cli.code = 1
    /\ cli.matches = Matches(None, None, None)
    /\ cli.log[Len(cli.log)] = [op |-> "run", arg |-> <<Local, "buildchain.out">>, res |-> "err"]
    /\ cli.log[1].arg = "buildchain.json"

\* ------------------------------------------------------------------------
\* C14
\* ------------------------------------------------------------------------
\* The calls of p that operate on the backend (every call to it but the
\* image lookup, which is the query that decides between the two
\* sequences), in the order they were made.
Operations(p) ==
    SelectSeq(log[p], LAMBDA x : x.op \in BackendOps \ {"image"})

\* One successful exec for each command of a list, in list order.
Execs(stage, cmds) == [i \in 1..Len(cmds) |-> Entry("exec", stage, cmds[i], "ok", <<>>)]

\* The operations of a prepare() that finds no image.
PrepareSequence(cfg) ==
    <<Entry("create", "prepare", <<cfg.base>>, "ok", BuildImage(cfg))>>
    \o Execs("prepare", cfg.prepare)
    \o <<Entry("snapshot", "prepare", <<>>, "ok", BuildImage(cfg)),
         Entry("publish", "prepare", <<>>, "ok", BuildImage(cfg))>>

\* The operations of run().
RunSequence(cfg, time) ==
    <<Entry("create", "run", BuildImage(cfg), "ok", ContainerName(cfg, time)),
      Entry("push", "run", <<>>, "ok", <<>>)>>
    \o Execs("build", cfg.build)
    \o <<Entry("exec", "mkdir", MkdirArtifacts, "ok", <<>>)>>
    \o Execs("publish", cfg.publish)
    \o <<Entry("pull", "run", <<>>, "ok", <<>>)>>

IsPrefix(a, b) == Len(a) <= Len(b) /\ a = SubSeq(b, 1, Len(a))

\* No call of p has failed.
NoFailure(p) == \A i \in 1..Len(log[p]) : log[p][i].res # "err"

\* C14: as long as no call of a build has failed, the operations it has
\* made on the backend are the first ones of one sequence, which it has
\* made in full once the artifacts are pulled.  When the lookup found no
\* image the sequence is: create from config.base, exec of each preparation
\* command, snapshot, publish under the derived name, create from the
\* derived name, push, exec of each build command, mkdir /root/artifacts,
\* exec of each publish command, pull.  When the lookup found the image it
\* is the same without the first four.  The lookup is made once, before all
\* of them.
C14_BackendSequence ==
    \A p \in Procs :
        (NoFailure(p) /\ BackendCalls(p) # {}) =>
            LET hit == \E i \in AtOp(p, "image") : log[p][i].res = "ok"
                expected == IF hit THEN RunSequence(config[p], source_time[p])
                            ELSE PrepareSequence(config[p])
                                 \o RunSequence(config[p], source_time[p])
                made == Operations(p)
            IN  /\ IF At(p, "pull", "run") # {}
                   THEN made = expected
                   ELSE Len(made) < Len(expected) /\ IsPrefix(made, expected)
                /\ Cardinality(AtOp(p, "image")) = 1
                /\ \A i \in AtOp(p, "image"), j \in BackendCalls(p) : i <= j

\* The example scenario: no image, no failure, and the ten operations made.
C14_Witness ==
    \E p \in Procs :
        /\ config[p] = ExampleConfig
        /\ NoFailure(p)
        /\ \E i \in AtOp(p, "image") : log[p][i].res = "absent"
        /\ At(p, "pull", "run") # {}
        /\ Len(Operations(p)) = 10

\* ------------------------------------------------------------------------
\* C15
\* ------------------------------------------------------------------------
\* The places of prepare() between the lookup that missed and the publish.
Preparing == {"p_create", "p_exec", "p_publish"}

\* The last call of p after a step.
LastCall(p) == log'[p][Len(log'[p])]

\* C15: the lookup of a build answers from the images published at that
\* instant and from nothing else: it finds no image exactly when none is
\* published under the derived name, also while another build is creating,
\* preparing or publishing that very image, and prepare() then goes on to
\* create its own instance; and between its lookup and its publish a build
\* makes its calls (create, exec, snapshot, publish) without looking the
\* image up again, whatever has been published in the meantime.
C15_LookupThenCreateNotAtomic ==
    [][\A q \in Procs :
         /\ (pc[q] = "lookup" /\ pc'[q] # "lookup") =>
               /\ LastCall(q).op = "image"
               /\ LastCall(q).res = "absent" <=> BuildImage(config[q]) \notin DOMAIN images
               /\ LastCall(q).res = "absent" => pc'[q] = "p_create"
         /\ (pc[q] \in Preparing /\ log'[q] # log[q]) =>
               /\ LastCall(q).op \in {"create", "exec", "snapshot", "publish"}
               /\ LastCall(q).stage = "prepare"
               /\ LastCall(q).res = "ok" => pc'[q] \in Preparing \cup {"r_create"}]_vars

\* The two builds have both found no image, both run the preparation
\* commands and both published an image under the same derived name.
C15_Witness ==
    /\ build_image[1] = build_image[2]
    /\ \A p \in Procs :
          /\ \E i \in AtOp(p, "image") : log[p][i].res = "absent"
          /\ Executed(p, "prepare") = <<EchoHi>>
          /\ \E i \in AtOp(p, "publish") :
                log[p][i].res = "ok" /\ log[p][i].name = BuildImage(ExampleConfig)

\* ------------------------------------------------------------------------
\* C16
\* ------------------------------------------------------------------------
\* prepare() of p has published the image `name`.
PublishedBy(p, name) ==
    \E i \in AtOp(p, "publish") : log[p][i].res = "ok" /\ log[p][i].name = name

\* C16: when a build has published the image of a configuration, whatever
\* became of that build afterwards, every later build of the same name,
\* base and preparation commands finds the image at its lookup, creates no
\* instance from the base, runs no preparation command, takes no snapshot
\* and publishes nothing.
C16_PublishedImageReused ==
    \A p, q \in Procs :
        (p < q /\ PublishedBy(p, BuildImage(config[q]))) =>
            /\ \A i \in AtOp(q, "image") : log[q][i].res = "ok"
            /\ PrepareWork(q) = {}
            /\ Executed(q, "prepare") = <<>>

\* What holds in place of C16: the image a build published stays published,
\* and a later build whose lookup returns Ok does none of the preparation;
\* a later build whose lookup returns Err prepares and publishes again.
C16_ReusedOnLookupOk ==
    \A p, q \in Procs :
        (p < q /\ PublishedBy(p, BuildImage(config[q]))) =>
            /\ BuildImage(config[q]) \in DOMAIN images
            /\ \A i \in AtOp(q, "image") : log[q][i].res \in {"ok", "err"}
            /\ (\E i \in AtOp(q, "image") : log[q][i].res = "ok") => PrepareWork(q) = {}

\* ------------------------------------------------------------------------
\* C17
\* ------------------------------------------------------------------------
\* C17: every image at the location has the derived name of a configuration
\* that is built, and is an instance of its config.base in which the
\* commands of config.prepare, all of them and nothing else, have run in
\* list order; every publish of a build comes after its successful create
\* from the base, the successful exec of every preparation command in
\* order, and a successful snapshot; and a build whose create, preparation
\* command or snapshot failed has made no publish.
C17_NoPartialImage ==
    /\ \A name \in DOMAIN images :
          \E p \in Procs :
              /\ name = BuildImage(config[p])
              /\ images[name].from = <<config[p].base>>
              /\ images[name].hist = config[p].prepare
              /\ images[name] = PreparedFs(config[p])
    /\ \A p \in Procs :
          /\ \A i \in AtOp(p, "publish") :
                /\ \E j \in At(p, "create", "prepare") :
                      j < i /\ log[p][j].res = "ok" /\ log[p][j].arg = <<config[p].base>>
                /\ \E j \in At(p, "snapshot", "prepare") : j < i /\ log[p][j].res = "ok"
                /\ Executed(p, "prepare") = config[p].prepare
                /\ \A j \in At(p, "exec", "prepare") : j < i /\ log[p][j].res = "ok"
                /\ log[p][i].name = BuildImage(config[p])
          /\ (\E j \in 1..Len(log[p]) :
                 /\ log[p][j].stage = "prepare"
                 /\ log[p][j].op \in {"create", "exec", "snapshot"}
                 /\ log[p][j].res = "err") => AtOp(p, "publish") = {}

\* A build that published the image of two preparation commands at a
\* location that had none.
C17_Witness ==
    \E p \in Procs :
        /\ Len(config[p].prepare) = 2
        /\ \E i \in AtOp(p, "image") : log[p][i].res = "absent"
        /\ PublishedBy(p, BuildImage(config[p]))
        /\ images[BuildImage(config[p])].hist = config[p].prepare

\* ------------------------------------------------------------------------
\* C18
\* ------------------------------------------------------------------------
\* The calls that create or write manifest.json, in the order of the code.
ManifestFileOps == <<"create_file", "write", "sync">>

\* C18: a build generates the manifest at most once, and only after its
\* pull succeeded; the manifest, once generated, has the time the download
\* returned, which is the time in the name of the run container, and the
\* files of the pulled artifacts; manifest.json is created, written and
\* synced once each, in that order, after the manifest was generated and
\* before the rename, with the workspace still at its temporary path; the
\* rename is the last call of the build, so that nothing is written after
\* the promotion, and the promoted manifest.json holds the manifest as
\* generated.
C18_ManifestOnceBeforePromotion ==
    \A p \in Procs :
        /\ Cardinality(AtOp(p, "manifest")) <= 1
        /\ \A i \in AtOp(p, "manifest") :
              \E j \in At(p, "pull", "run") : j < i /\ log[p][j].res = "ok"
        /\ manifest[p] # NoManifest =>
              /\ \E i \in AtOp(p, "manifest") : log[p][i].res = "ok"
              /\ \E i \in AtOp(p, "download") : log[p][i].res = "ok"
              /\ manifest[p].time = source_time[p]
              /\ manifest[p].time \in Times
              /\ \A i \in At(p, "create", "run") :
                    log[p][i].name
                        = <<"buildchain-", config[p].name, "-", ToString(manifest[p].time)>>
              /\ {manifest[p].files[i][1] : i \in 1..Len(manifest[p].files)}
                    = Published(config[p])
        /\ \A k \in 1..Len(ManifestFileOps) :
              /\ Cardinality(AtOp(p, ManifestFileOps[k])) <= 1
              /\ \A i \in AtOp(p, ManifestFileOps[k]) :
                    /\ \E j \in AtOp(p, "manifest") : j = i - k /\ log[p][j].res = "ok"
                    /\ \A j \in AtOp(p, "rename") : i < j
        /\ \A i \in AtOp(p, "rename") :
              /\ i = Len(log[p])
              /\ \A k \in 1..Len(ManifestFileOps) :
                    \E j \in AtOp(p, ManifestFileOps[k]) : j < i /\ log[p][j].res = "ok"
        /\ (pc[p] \in {"m_create", "m_write", "m_sync", "rename"}) => ws[p].state = "temp"
        /\ out[p].kind = "tree" =>
              /\ out[p].tree.mfile = "synced"
              /\ out[p].tree.mtext = ManifestJson(manifest[p])
              /\ AtOp(p, "rename") = {Len(log[p])}

\* A build that returned Ok, whose download returned the time 2 and whose
\* promoted manifest has that time and one file.
C18_Witness ==
    \E p \in Procs :
        /\ ReturnedOk(p)
        /\ source_time[p] = 2
        /\ manifest[p].time = 2
        /\ Len(manifest[p].files) = 1
        /\ out[p].tree.mtext = ManifestJson(manifest[p])

====
